---- MODULE Spec2Model ----
(***************************************************************************)
(* The two Metropolis chain drivers of algstat,                            *)
(*   metropolis_uniform_cpp        (src/src/metropolis_uniform_cpp.cpp)    *)
(*   metropolis_hypergeometric_cpp (src/src/metropolis_hypergeometric_cpp.cpp) *)
(* as one state machine.  A behaviour is one invocation of one driver:     *)
(* Init fixes the arguments, every raw step of the double loop is one      *)
(* action (the adaptive inner walk of the uniform driver takes one action  *)
(* per inner iteration), Record is the write of a column of `steps`, and   *)
(* Return is the construction of the result list.                          *)
(*                                                                         *)
(* Doubles are modelled as exact rationals <<num, den>> in lowest terms;   *)
(* exp(sum(lgamma(x+1)) - sum(lgamma(y+1))) is the ratio of the products   *)
(* of factorials.  R's NA_integer_ is the int INT_MIN.                     *)
(***************************************************************************)
EXTENDS Integers, Sequences, FiniteSets, TLC

----------------------------------------------------------------------------
(* Bounds of the model *)

\* a run takes at most MaxSamples raw steps (iter * thin <= MaxSamples)
MaxSamples == 2

\* the largest count of a cell of the tables the acceptance probability is
\* evaluated on by itself
MaxCount == 2

----------------------------------------------------------------------------
(* Arguments of a run *)

\* moves: the columns of the move basis (4 cells)
moves == << <<1, -1, 0, 0>>, <<0, 0, 1, -1>>, <<1, -1, 1, -1>>, <<1, -1, 2, -2>> >>

\* config: the constraint matrix A, by rows; A . m = 0 for every column m of moves
config == << <<1, 1, 0, 0>>, <<0, 0, 1, 1>> >>

\* the initial tables a run may be started from
InitialTables == { <<1, 1, 1, 0>> }

nMoves == Len(moves)

Cells == 1..Len(moves[1])

----------------------------------------------------------------------------
(* Integer and vector arithmetic *)

NA_INTEGER == -2147483647 - 1

Abs(x) == IF x < 0 THEN -x ELSE x

\* C++ int division truncates toward zero
TruncDiv(a, b) ==
  IF (a >= 0) = (b > 0) THEN Abs(a) \div Abs(b) ELSE -(Abs(a) \div Abs(b))

RECURSIVE GCD(_, _)
GCD(a, b) == IF b = 0 THEN a ELSE GCD(b, a % b)

\* a rational in lowest terms with a positive denominator
Frac(p, q) == LET g == GCD(Abs(p), q) IN <<p \div g, q \div g>>

FracAdd(x, y) == Frac(x[1] * y[2] + y[1] * x[2], x[2] * y[2])

FracLess(x, y) == x[1] * y[2] < y[1] * x[2]

FracLeq(x, y) == x[1] * y[2] <= y[1] * x[2]

Zero == Frac(0, 1)

One == Frac(1, 1)

\* Rcpp sugar scalar * IntegerVector: NA propagates
SugarTimes(s, v) ==
  [k \in DOMAIN v |->
     IF s = NA_INTEGER \/ v[k] = NA_INTEGER THEN NA_INTEGER ELSE s * v[k]]

\* Rcpp sugar IntegerVector + IntegerVector: NA propagates
SugarPlus(a, b) ==
  [k \in DOMAIN a |->
     IF a[k] = NA_INTEGER \/ b[k] = NA_INTEGER THEN NA_INTEGER ELSE a[k] + b[k]]

\* the loop with move[0] read for every cell
AddMoveFirst(cur, t, mv) == [k \in DOMAIN cur |-> cur[k] + t * mv[1]]

\* the element-wise loop  proposal[k] = current[k] + t * move[k]
AddMove(cur, t, mv) == [k \in DOMAIN cur |-> cur[k] + t * mv[k]]

\* the row-by-row product A . x
MatVec(A, x) ==
  [r \in DOMAIN A |->
     LET RECURSIVE Dot(_)
         Dot(k) == IF k = 0 THEN 0 ELSE Dot(k - 1) + A[r][k] * x[k]
     IN Dot(Len(x))]

Zeros == [k \in Cells |-> 0]

----------------------------------------------------------------------------
(* State of one invocation *)

VARIABLES
  target,       \* "uniform": metropolis_uniform_cpp, "hypergeometric": the other
  hit_and_run, SIS, non_uniform, adaptive,   \* the bool arguments
  iter, thin,   \* the int arguments
  initial,      \* the table passed as current (kept for reference)
  suff_stats,   \* the argument suff_stats (= config . initial)
  current,      \* IntegerVector current
  proposal,     \* IntegerVector proposal(n)
  move,         \* IntegerVector move(n)
  which_move,   \* int which_move (0-based); -1 while it holds no assigned value
  move_dist,    \* NumericVector move_dist
  counter,      \* double counter
  lb, ub,       \* int lb, ub (uniform driver)
  run,          \* IntegerVector run (uniform driver)
  w_current,    \* IntegerVector w_current(n) (uniform driver)
  line_length,  \* int line_length of the adaptive walk under way
  l,            \* its loop index
  unifs,        \* the element of unifs read by the latest raw step
  unifs2,       \* unifs2[i], fixed when the outer iteration i first reads it
  prob,         \* double prob
  accept_prob,  \* double accept_prob
  steps,        \* IntegerMatrix steps(n, iter), by columns
  i, j,         \* the loop indices
  pc            \* "step", "inner" (inside the adaptive walk), "returned", "error"

args == <<target, hit_and_run, SIS, non_uniform, adaptive, iter, thin, initial,
          suff_stats>>

walk == <<lb, ub, run, w_current, line_length, l>>

weights == <<move_dist, counter>>

vars == <<args, current, proposal, move, which_move, weights, walk, unifs,
          unifs2, prob, accept_prob, steps, i, j, pc>>

nTotalSamples == iter * thin

----------------------------------------------------------------------------
(* The random streams.  Every element of whichMove, unifs and unifs3 is    *)
(* read by at most one raw step, so it is drawn where it is read.          *)

\* runif: values of unifs (transition draws)
UnifDraws == { Frac(0, 1), Frac(9, 10) }

\* runif: values of unifs2 (SIS trigger draws)
Unif2Draws == { Frac(0, 1), Frac(3, 100), Frac(1, 2) }

\* runif: values of unifs3 (weighted selection draws)
Unif3Draws == { Frac(0, 1), Frac(3, 10), Frac(6, 10), Frac(9, 10) }

\* sample(nMoves, nTotalSamples, 1): values of whichMove
WhichMoveDraws == 1..nMoves

\* the SIS trigger thresholds .05 and .01
SISThreshold == IF target = "uniform" THEN Frac(5, 100) ELSE Frac(1, 100)

\* sis_tbl(config, suff_stats): a table of the fiber { x >= 0 : A . x = suff_stats }
sis_tbl(A, b) ==
  LET RECURSIVE Cap(_, _)
      \* the largest count the rows r..1 of A allow in cell k
      Cap(k, r) ==
        IF r = 0 THEN b[1] + b[2]
        ELSE IF A[r][k] > 0 /\ b[r] < Cap(k, r - 1) THEN b[r] ELSE Cap(k, r - 1)
      RECURSIVE Fill(_)
      \* the tables of the first k cells within the caps
      Fill(k) ==
        IF k = 0 THEN { << >> }
        ELSE { Append(x, c) : x \in Fill(k - 1), c \in 0..Cap(k, Len(A)) }
  IN { x \in Fill(Len(A[1])) : MatVec(A, x) = b }

----------------------------------------------------------------------------
(* The acceptance rule *)

\* the scan stopping one cell short
anyIsNegativeShort(p) == \E k \in 1..(Len(p) - 1) : p[k] < 0

anyIsNegative(p) == \E k \in DOMAIN p : p[k] < 0

RECURSIVE Factorial(_)
Factorial(x) == IF x <= 1 THEN 1 ELSE x * Factorial(x - 1)

\* the sum running over all cells but the last
ProdFactorialShort(x) ==
  LET RECURSIVE P(_)
      P(k) == IF k = 0 THEN 1 ELSE P(k - 1) * Factorial(x[k])
  IN P(Len(x) - 1)

\* exp(sum(lgamma(x + 1))) for a table x >= 0
ProdFactorial(x) ==
  LET RECURSIVE P(_)
      P(k) == IF k = 0 THEN 1 ELSE P(k - 1) * Factorial(x[k])
  IN P(Len(x))

\* if(prob > 1) prob = 1
Clamp(p) == IF FracLess(One, p) THEN One ELSE p

\* the gate written with <= 0
UniformProbStrict(p) == IF \E k \in DOMAIN p : p[k] <= 0 THEN Zero ELSE One

\* metropolis_uniform_cpp: prob of the candidate p
UniformProb(p) == Clamp(IF anyIsNegative(p) THEN Zero ELSE One)

\* metropolis_hypergeometric_cpp: prob of the candidate p from cur
\* (lgamma of a non-positive integer is +Inf, so a negative cell of cur
\* makes the exponent +Inf and the clamped value 1)
HyperProb(cur, p) ==
  Clamp(IF anyIsNegative(p) THEN Zero
        ELSE IF anyIsNegative(cur) THEN One
        ELSE Frac(ProdFactorial(cur), ProdFactorial(p)))

AcceptanceProb(cur, p) ==
  IF target = "uniform" THEN UniformProb(p) ELSE HyperProb(cur, p)

\* the transition test written with <=
AcceptsLeq(u, p) == FracLeq(u, p)

\* if(unifs[thin*i+j] < prob)
Accepts(u, p) == FracLess(u, p)

\* accept_prob + prob / nTotalSamples
Accumulate(acc, p) == FracAdd(acc, Frac(p[1], p[2] * nTotalSamples))

\* move_dist[which_move] = move_dist[which_move] + 1
Reinforce(dist, wm) == [dist EXCEPT ![wm + 1] = @ + 1]

\* the threshold test without the test of the flag
SISFiresUnguarded(u2) == FracLess(u2, SISThreshold)

\* if(SIS) if(unifs2[i] < threshold)
SISFires(u2) == SIS /\ FracLess(u2, SISThreshold)

(* From the SIS gate to the end of the raw step: the candidate p0 of the    *)
(* strategy may be replaced by a fiber point, the probability is computed  *)
(* and accumulated, and the transition draw decides the move.              *)
Gate(p0) ==
  /\ IF SIS /\ j = 0 THEN unifs2' \in Unif2Draws ELSE unifs2' = unifs2
  /\ IF SISFires(unifs2')
       THEN proposal' \in sis_tbl(config, suff_stats)
       ELSE proposal' = p0
  /\ prob' = AcceptanceProb(current, proposal')
  /\ accept_prob' = Accumulate(accept_prob, prob')
  /\ unifs' \in UnifDraws
  /\ IF Accepts(unifs', prob')
       THEN /\ current' = proposal'
            /\ IF non_uniform
                 THEN /\ move_dist' = Reinforce(move_dist, which_move')
                      /\ counter' = counter + 1
                 ELSE UNCHANGED weights
       ELSE UNCHANGED <<current, weights>>
  /\ j' = j + 1
  /\ pc' = "step"
  /\ UNCHANGED <<args, steps, i>>

InLoop == pc = "step" /\ i < iter /\ j < thin

----------------------------------------------------------------------------
(* Weighted selection (non_uniform) *)

\* the inner loop stopping at m < l
CumWeightShort(dist, lidx) ==
  LET RECURSIVE S(_)
      S(m) == IF m = 0 THEN 0 ELSE S(m - 1) + dist[m]
  IN S(lidx)

\* sums after the inner loop  for(m = 0; m < l+1; ++m)
CumWeight(dist, lidx) ==
  LET RECURSIVE S(_)
      S(m) == IF m = 0 THEN 0 ELSE S(m - 1) + dist[m]
  IN S(lidx + 1)

\* the index at which the scan breaks, or -1 when it runs to the end
Scan(dist, cnt, u3) ==
  LET hits == { lidx \in 0..(Len(dist) - 1) :
                  FracLeq(u3, Frac(CumWeight(dist, lidx), cnt)) }
  IN IF hits = {} THEN -1 ELSE CHOOSE lidx \in hits : \A h \in hits : lidx <= h

WeightedStep ==
  /\ InLoop
  /\ non_uniform
  /\ \E u3 \in Unif3Draws :
       LET hit == Scan(move_dist, counter, u3)
       IN /\ move' = IF hit = -1 THEN move ELSE moves[hit + 1]
          /\ which_move' = IF hit = -1 THEN which_move ELSE hit
          /\ Gate(AddMove(current, 1, move'))
  /\ UNCHANGED walk

\* metropolis_uniform_cpp with non_uniform
UniformWeighted == target = "uniform" /\ WeightedStep

\* metropolis_hypergeometric_cpp with non_uniform
HyperWeighted == target = "hypergeometric" /\ WeightedStep

----------------------------------------------------------------------------
(* Direct strategy *)

DirectStep ==
  /\ InLoop
  /\ ~non_uniform
  /\ \E w \in WhichMoveDraws :
       /\ move' = moves[w]
       /\ Gate(AddMove(current, 1, move'))
  /\ UNCHANGED <<which_move, walk>>

\* metropolis_uniform_cpp: hit_and_run false (adaptive is not looked at)
UniformDirect == target = "uniform" /\ ~hit_and_run /\ DirectStep

\* metropolis_hypergeometric_cpp: hit_and_run and adaptive both false
HyperDirect ==
  target = "hypergeometric" /\ ~hit_and_run /\ ~adaptive /\ DirectStep

----------------------------------------------------------------------------
(* Hit-and-run of metropolis_uniform_cpp *)

\* the coordinates kept by  [move != 0]
NonZero(mv) == { k \in DOMAIN mv : mv[k] # 0 }

\* stepSize = (-1 * current_num) / move_num, indexed by the kept coordinates
stepSize(cur, mv) == [k \in NonZero(mv) |-> TruncDiv(-cur[k], mv[k])]

lowerBound(cur, mv) ==
  { stepSize(cur, mv)[k] : k \in { c \in NonZero(mv) : stepSize(cur, mv)[c] < 0 } }

upperBound(cur, mv) ==
  { stepSize(cur, mv)[k] : k \in { c \in NonZero(mv) : stepSize(cur, mv)[c] > 0 } }

SetMax(S) == CHOOSE x \in S : \A y \in S : y <= x

SetMin(S) == CHOOSE x \in S : \A y \in S : x <= y

(* max() and min() of an empty IntegerVector are undefined: Rcpp either     *)
(* converts -Inf / +Inf to int (INT_MIN, that is NA, on x86) or reads the  *)
(* first element of a vector that has none.  A pair <<g1, g2>> holds what  *)
(* the two calls yield where both are undefined.                           *)
Indeterminate ==
  { <<NA_INTEGER, NA_INTEGER>> } \cup ((-2..2) \X (-2..2))

\* lb = max(lowerBound), ub = min(upperBound): the possible pairs <<lb, ub>>
Bounds(cur, mv) ==
  LET lo == lowerBound(cur, mv)
      up == upperBound(cur, mv)
  IN IF lo # {} /\ up # {} THEN { <<SetMax(lo), SetMin(up)>> }
     ELSE IF lo # {} THEN { <<SetMax(lo), g2>> : g2 \in { g[2] : g \in Indeterminate } }
     ELSE IF up # {} THEN { <<g1, SetMin(up)>> : g1 \in { g[1] : g \in Indeterminate } }
     ELSE Indeterminate

\* the bounds used as computed, the end points not looked at
RevalidateNever(cur, mv, b) == b

\* if(is_true(any(stepSize == 0))) re-validate the two end points
Revalidate(cur, mv, b) ==
  IF \E k \in NonZero(mv) : stepSize(cur, mv)[k] = 0
    THEN LET test1 == SugarPlus(cur, SugarTimes(b[1], mv))
             test2 == SugarPlus(cur, SugarTimes(b[2], mv))
         IN << IF \E k \in DOMAIN test1 : test1[k] < 0 THEN 1 ELSE b[1],
               IF \E k \in DOMAIN test2 : test2[k] < 0 THEN -1 ELSE b[2] >>
    ELSE b

\* run[0] = v: a write into a vector of length 0 leaves its length 0
SetFirst(r, v) == IF Len(r) = 0 THEN r ELSE [r EXCEPT ![1] = v]

\* the fallback stepping backwards, run[0] = -1
DrawRunBack(r, b) ==
  IF b[1] > b[2] THEN { SetFirst(r, -1) } ELSE { <<t>> : t \in b[1]..b[2] }

\* if(lb > ub) run[0] = 1; else run = Rcpp::sample(seq(lb, ub), 1)
DrawRun(r, b) ==
  IF b[1] > b[2] THEN { SetFirst(r, 1) } ELSE { <<t>> : t \in b[1]..b[2] }

\* if(run[0] == 0) run[0] = 1
NoNullStep(r) == IF Len(r) > 0 /\ r[1] = 0 THEN SetFirst(r, 1) ELSE r

\* as<int>(run) throws unless run has exactly one element
Throws(r) == Len(r) # 1

\* the exception leaves the function: nothing else is assigned
Raise ==
  /\ pc' = "error"
  /\ UNCHANGED <<args, current, weights, unifs, unifs2, prob, accept_prob,
                 steps, i, j>>

UniformHitAndRun ==
  /\ InLoop
  /\ target = "uniform" /\ ~non_uniform /\ hit_and_run /\ ~adaptive
  /\ \E w \in WhichMoveDraws :
       \E b0 \in Bounds(current, moves[w]) :
         LET b == Revalidate(current, moves[w], b0)
         IN \E r \in DrawRun(run, b) :
              /\ move' = moves[w]
              /\ lb' = b[1]
              /\ ub' = b[2]
              /\ run' = NoNullStep(r)
              /\ IF Throws(run')
                   THEN Raise /\ UNCHANGED proposal
                   ELSE Gate(AddMove(current, run'[1], move'))
  /\ UNCHANGED <<which_move, w_current, line_length, l>>

----------------------------------------------------------------------------
(* The adaptive walk of metropolis_uniform_cpp *)

\* C++ int subtraction a - b, wrapping at 32 bits
IntMinus(a, b) ==
  IF b = NA_INTEGER
    THEN IF a = NA_INTEGER THEN 0
         ELSE IF a >= 0 THEN NA_INTEGER + a ELSE (a + 2147483647) + 1
    ELSE IF a = NA_INTEGER /\ b > 0 THEN (2147483647 - b) + 1 ELSE a - b

\* what a read of unifs[idx] can yield: a draw, or anything past the end
ReadUnifs(idx) ==
  IF idx < nTotalSamples THEN UnifDraws
  ELSE UnifDraws \cup { Frac(-1, 1), Frac(2, 1) }

\* lines 80-96: select the move, compute the bounds, copy current
UniformAdaptiveBegin ==
  /\ InLoop
  /\ target = "uniform" /\ ~non_uniform /\ hit_and_run /\ adaptive
  /\ \E w \in WhichMoveDraws :
       \E b \in Bounds(current, moves[w]) :
         /\ move' = moves[w]
         /\ lb' = b[1]
         /\ ub' = b[2]
         /\ line_length' = IntMinus(b[2], b[1])
  /\ w_current' = current
  /\ l' = 0
  /\ pc' = "inner"
  /\ UNCHANGED <<args, current, proposal, which_move, weights, run, unifs,
                 unifs2, prob, accept_prob, steps, i, j>>

\* lines 98-127: one iteration of the inner loop
UniformAdaptiveInner ==
  /\ pc = "inner"
  /\ l < line_length
  /\ \E constant2 \in {-1, 1} :
       LET w_proposal == AddMove(w_current, constant2, move)
           prob2 == HyperProb(w_current, w_proposal)
       IN \E u \in ReadUnifs(l) :
            w_current' = IF Accepts(u, prob2) THEN w_proposal ELSE w_current
  /\ l' = l + 1
  /\ UNCHANGED <<args, current, proposal, move, which_move, weights, lb, ub,
                 run, line_length, unifs, unifs2, prob, accept_prob, steps,
                 i, j, pc>>

\* lines 128-130 and 159-163, then the rest of the raw step
UniformAdaptiveEnd ==
  /\ pc = "inner"
  /\ l >= line_length
  /\ IF Throws(run)
       THEN Raise /\ proposal' = w_current
       ELSE Gate(AddMove(current, run[1], move))
  /\ UNCHANGED <<move, which_move, walk>>

----------------------------------------------------------------------------
(* hit_and_run_fun and adaptive_fun of metropolis_hypergeometric_cpp       *)

\* the range of step multipliers: an end with no bounding coordinate, or
\* whose end point has a negative cell, is clamped (lb -> 1, ub -> -1)
LineRange(cur, mv) ==
  LET lo == lowerBound(cur, mv)
      up == upperBound(cur, mv)
      b == << IF lo = {} THEN 1 ELSE SetMax(lo),
              IF up = {} THEN -1 ELSE SetMin(up) >>
  IN << IF anyIsNegative(AddMove(cur, b[1], mv)) THEN 1 ELSE b[1],
        IF anyIsNegative(AddMove(cur, b[2], mv)) THEN -1 ELSE b[2] >>

\* the step multipliers hit-and-run may use: never 0, a unit step when the
\* range is empty
StepMultipliers(cur, mv) ==
  LET b == LineRange(cur, mv)
  IN IF b[1] > b[2] THEN {-1, 1}
     ELSE ((b[1]..b[2]) \ {0}) \cup (IF 0 \in b[1]..b[2] THEN {-1, 1} ELSE {})

hit_and_run_fun(cur, mv) ==
  { AddMove(cur, t, mv) : t \in StepMultipliers(cur, mv) }

\* the states one +-1 step of the sub-chain can lead to from w
SubStep(w, mv) ==
  { AddMove(w, c, mv) : c \in { d \in {-1, 1} :
        FracLess(Zero, HyperProb(w, AddMove(w, d, mv))) } }
  \cup (IF \E d \in {-1, 1} : FracLess(HyperProb(w, AddMove(w, d, mv)), One)
          THEN {w} ELSE {})

RECURSIVE SubChain(_, _, _)
\* the states the sub-chain can be in after k more steps from a state of S
SubChain(S, mv, k) ==
  IF k <= 0 THEN S ELSE SubChain(UNION { SubStep(w, mv) : w \in S }, mv, k - 1)

adaptive_fun(cur, mv) ==
  LET b == LineRange(cur, mv)
  IN SubChain({cur}, mv, b[2] - b[1])

\* proposal = hit_and_run_fun(current, move)
HyperHitAndRun ==
  /\ InLoop
  /\ target = "hypergeometric" /\ ~non_uniform /\ hit_and_run /\ ~adaptive
  /\ \E w \in WhichMoveDraws :
       /\ move' = moves[w]
       /\ \E p \in hit_and_run_fun(current, move') : Gate(p)
  /\ UNCHANGED <<which_move, walk>>

\* proposal = adaptive_fun(current, move), whatever hit_and_run is
HyperAdaptive ==
  /\ InLoop
  /\ target = "hypergeometric" /\ ~non_uniform /\ adaptive
  /\ \E w \in WhichMoveDraws :
       /\ move' = moves[w]
       /\ \E p \in adaptive_fun(current, move') : Gate(p)
  /\ UNCHANGED <<which_move, walk>>

----------------------------------------------------------------------------
(* The outer loop *)

\* steps(k, i) = current[k], ++i
Record ==
  /\ pc = "step" /\ i < iter /\ j = thin
  /\ steps' = [steps EXCEPT ![i + 1] = current]
  /\ i' = i + 1
  /\ j' = 0
  /\ UNCHANGED <<args, current, proposal, move, which_move, weights, walk,
                 unifs, unifs2, prob, accept_prob, pc>>

\* List::create(steps, accept_prob); return
Return ==
  /\ pc = "step" /\ i = iter
  /\ pc' = "returned"
  /\ UNCHANGED <<args, current, proposal, move, which_move, weights, walk,
                 unifs, unifs2, prob, accept_prob, steps, i, j>>

----------------------------------------------------------------------------

Init ==
  /\ target \in {"uniform", "hypergeometric"}
  /\ hit_and_run \in BOOLEAN
  /\ SIS \in BOOLEAN
  /\ non_uniform \in BOOLEAN
  /\ adaptive \in BOOLEAN
  /\ iter \in 1..MaxSamples
  /\ thin \in 1..MaxSamples
  /\ iter * thin <= MaxSamples
  /\ initial \in InitialTables
  /\ suff_stats = MatVec(config, initial)
  /\ current = initial
  /\ proposal = Zeros
  /\ move = Zeros
  /\ which_move = -1
  /\ move_dist = [m \in 1..nMoves |-> 1]
  /\ counter = nMoves
  /\ lb = 0
  /\ ub = 0
  /\ run = << >>
  /\ w_current = Zeros
  /\ line_length = 0
  /\ l = 0
  /\ unifs = Zero
  /\ unifs2 = Zero
  /\ prob = Zero
  /\ accept_prob = Zero
  /\ steps = [c \in 1..iter |-> Zeros]
  /\ i = 0
  /\ j = 0
  /\ pc = "step"

Next ==
  \/ UniformWeighted
  \/ UniformDirect
  \/ HyperWeighted
  \/ HyperDirect
  \/ UniformHitAndRun
  \/ UniformAdaptiveBegin
  \/ UniformAdaptiveInner
  \/ UniformAdaptiveEnd
  \/ HyperHitAndRun
  \/ HyperAdaptive
  \/ Record
  \/ Return

Spec == Init /\ [][Next]_vars

----------------------------------------------------------------------------
(* Properties *)

NonNegative(x) == \A k \in DOMAIN x : x[k] >= 0

\* a raw step ran through the acceptance gate
RawStep == j' = j + 1

\* C1: the current table and every recorded column of steps have all
\* entries >= 0 in every reachable state, for both drivers and every
\* combination of the flags; only proposal may hold a negative entry.
C1_Feasible ==
  /\ NonNegative(current)
  /\ \A c \in 1..i : NonNegative(steps[c])

\* a run returned after a move was taken and a negative candidate rejected
C1_Witness ==
  /\ pc = "returned"
  /\ anyIsNegative(proposal)
  /\ current # initial
  /\ steps[iter] = current

\* C2: a raw step whose acceptance probability is 0 (as it is whenever the
\* candidate has a negative entry) leaves current, move_dist and counter
\* as they were.
C2_ZeroProbFrame ==
  [][RawStep =>
       /\ (anyIsNegative(proposal') => prob' = Zero)
       /\ (prob' = Zero => UNCHANGED <<current, move_dist, counter>>)]_vars

\* a weighted-selection step rejected a negative candidate after a move
C2_Witness ==
  /\ non_uniform
  /\ j > 0
  /\ prob = Zero
  /\ anyIsNegative(proposal)
  /\ counter > nMoves

\* C3: in every raw step of the uniform driver prob is exactly 1 when the
\* candidate has no negative entry and exactly 0 when it has one.
C3_UniformProb ==
  [][(RawStep /\ target = "uniform") =>
       prob' = IF NonNegative(proposal') THEN One ELSE Zero]_vars

\* a uniform run in which one candidate was taken and a later one refused
C3_Witness ==
  /\ target = "uniform"
  /\ pc = "returned"
  /\ prob = Zero
  /\ current # initial

\* every column of the move basis is in the kernel of A
MovesInKernel ==
  \A m \in 1..nMoves : \A r \in DOMAIN config : MatVec(config, moves[m])[r] = 0

RECURSIVE Total(_, _)
Total(x, k) == IF k = 0 THEN 0 ELSE Total(x, k - 1) + x[k]

\* C4: with A . m = 0 for every move, every recorded table (and current)
\* has the sufficient statistics and the cell total of the initial table.
C4_Conservation ==
  MovesInKernel =>
    /\ MatVec(config, current) = MatVec(config, initial)
    /\ \A c \in 1..i :
         /\ MatVec(config, steps[c]) = MatVec(config, initial)
         /\ Total(steps[c], Len(steps[c])) = Total(initial, Len(initial))

\* a returned chain whose last table differs from the initial one
C4_Witness ==
  /\ pc = "returned"
  /\ iter > 1
  /\ steps[iter] # initial
  /\ steps[1] # steps[iter]

\* a raw step of the uniform driver with the hit-and-run strategy: it
\* ends at the acceptance gate or with the exception
HitAndRunStep ==
  /\ target = "uniform" /\ ~non_uniform /\ hit_and_run /\ ~adaptive
  /\ pc = "step"
  /\ (RawStep \/ pc' = "error")

\* every integer of lb..ub keeps the table feasible
RangeFeasible(cur, mv, lo, hi) ==
  \A t \in lo..hi : NonNegative(AddMove(cur, t, mv))

\* C5 as claimed: the re-validated range lb..ub contains 0 and every
\* integer t in it gives current + t * move with all entries >= 0.
C5_RangeContainsZero ==
  [][HitAndRunStep =>
       /\ lb' <= 0 /\ 0 <= ub'
       /\ RangeFeasible(current, move', lb', ub')]_vars

\* C5 amended: every integer t of the re-validated range lb..ub gives
\* current + t * move with all entries >= 0, and the range contains 0
\* when no coordinate of the move has the quotient 0; with a quotient 0
\* an end is clamped (lb to 1, ub to -1) and the range may exclude 0.
C5_RangeFeasible ==
  [][HitAndRunStep =>
       /\ RangeFeasible(current, move', lb', ub')
       /\ (\A k \in NonZero(move') : stepSize(current, move')[k] # 0)
            => (lb' <= 0 /\ 0 <= ub')]_vars

\* hit-and-run drew from a clamped range that excludes 0 and moved
C5_Witness ==
  /\ target = "uniform" /\ ~non_uniform /\ hit_and_run /\ ~adaptive
  /\ pc = "step" /\ j = 1 /\ i = 0
  /\ initial = <<1, 1, 1, 0>>
  /\ move = <<1, -1, 1, -1>>
  /\ lb = -1 /\ ub = -1 /\ run = <<-1>>
  /\ current = <<0, 2, 0, 1>>

\* C6 as claimed: a hit-and-run raw step never raises an error and builds
\* its candidate with a step multiplier that is not 0, a unit step when
\* lb > ub.
C6_FallbackRecovers ==
  [][HitAndRunStep =>
       /\ pc' # "error"
       /\ Len(run') = 1
       /\ run'[1] # 0
       /\ (lb' > ub' => run'[1] \in {-1, 1})
       /\ (~SISFires(unifs2') => proposal' = AddMove(current, run'[1], move'))]_vars

\* C7 as claimed: weights start at 1; in a run with non_uniform the weight
\* of the selected move and the normalizer grow by exactly 1 in the raw
\* steps that accept a candidate built as current + move, and nothing
\* changes in any other step, SIS substitutes included.
C7_Reinforcement ==
  [][/\ (RawStep /\ non_uniform /\ ~SISFires(unifs2') /\ Accepts(unifs', prob'))
          => /\ move_dist' = Reinforce(move_dist, which_move')
             /\ counter' = counter + 1
             /\ proposal' = AddMove(current, 1, moves[which_move' + 1])
     /\ ~(RawStep /\ non_uniform /\ ~SISFires(unifs2') /\ Accepts(unifs', prob'))
          => UNCHANGED <<move_dist, counter>>]_vars

\* the end of an adaptive raw step of the uniform driver
AdaptiveStepEnd ==
  /\ target = "uniform"
  /\ pc = "inner"
  /\ pc' # "inner"

\* C8 as claimed: an adaptive raw step hands the final state of its inner
\* walk to the acceptance gate (unless SIS substitutes it).
C8_AdaptiveCandidate ==
  [][/\ AdaptiveStepEnd
          => /\ RawStep
             /\ pc' = "step"
             /\ (~SISFires(unifs2') => proposal' = w_current)
     /\ (RawStep /\ target = "hypergeometric" /\ ~non_uniform /\ adaptive
           /\ ~SISFires(unifs2'))
          => proposal' \in adaptive_fun(current, move')]_vars

\* C9 as claimed: a run takes exactly iter * thin raw steps and returns a
\* chain of iter tables, the c-th the current table right after raw step
\* c * thin; a recorded column is never written again.
C9_ThinnedRecording ==
  [][/\ (i' = i + 1) => (j = thin /\ steps'[i'] = current /\ current' = current)
     /\ \A c \in 1..i : steps'[c] = steps[c]
     /\ (i' # i /\ RawStep) => FALSE
     /\ (pc' \in {"returned", "error"}) =>
           (pc' = "returned" /\ i' = iter /\ Len(steps') = iter)]_vars

\* one raw step's share of the accumulator when its candidate is feasible
FeasibleShare(x) == Frac(IF NonNegative(x) THEN 1 ELSE 0, nTotalSamples)

\* C10 as claimed: every raw step that is begun adds prob / nTotalSamples
\* to accept_prob, whether or not current is replaced; under the uniform
\* target the share is 1 / nTotalSamples exactly when the candidate is
\* feasible, so that accept_prob * nTotalSamples counts the feasible
\* candidates; the run returns accept_prob within [0, 1] and no raw step
\* ends without reaching the accumulator.
C10_Accumulator ==
  [][/\ RawStep => accept_prob' = Accumulate(accept_prob, prob')
     /\ (RawStep /\ target = "uniform")
           => accept_prob' = FracAdd(accept_prob, FeasibleShare(proposal'))
     /\ ~RawStep => accept_prob' = accept_prob
     /\ (pc' = "returned") => (FracLeq(Zero, accept_prob') /\ FracLeq(accept_prob', One))
     /\ pc' # "error"]_vars

\* the strategy the flags of a run select
Strategy ==
  IF non_uniform THEN "weighted"
  ELSE IF target = "uniform"
    THEN IF hit_and_run
           THEN IF adaptive THEN "adaptive" ELSE "hit_and_run"
           ELSE "direct"
    ELSE IF adaptive THEN "adaptive"
         ELSE IF hit_and_run THEN "hit_and_run" ELSE "direct"

\* mv is a column of the move basis
IsColumn(mv) == \E m \in 1..nMoves : mv = moves[m]

\* C12 as claimed: the flags never change during a run, so one strategy
\* serves all its raw steps; a candidate that SIS does not substitute is
\* built by that strategy alone, the state of the other strategies left
\* untouched: with non_uniform it is current plus the column the scan
\* selected, whatever hit_and_run and adaptive are, and after the adaptive
\* walk no other strategy builds the candidate: it goes to the gate.
C12_StrategyExclusive ==
  [][/\ args' = args
     /\ (pc' = "inner") => (Strategy = "adaptive" /\ target = "uniform")
     /\ AdaptiveStepEnd => RawStep
     /\ (RawStep /\ ~SISFires(unifs2')) =>
          /\ IsColumn(move')
          /\ (Strategy = "weighted") =>
                /\ which_move' \in 0..(nMoves - 1)
                /\ move' = moves[which_move' + 1]
                /\ proposal' = AddMove(current, 1, move')
                /\ UNCHANGED walk
          /\ (Strategy # "weighted") => which_move' = which_move
          /\ (Strategy = "direct") =>
                /\ proposal' = AddMove(current, 1, move')
                /\ UNCHANGED walk
          /\ (Strategy = "hit_and_run" /\ target = "uniform") =>
                /\ Len(run') = 1
                /\ proposal' = AddMove(current, run'[1], move')
                /\ UNCHANGED <<w_current, line_length, l>>
          /\ (Strategy = "hit_and_run" /\ target = "hypergeometric") =>
                /\ proposal' \in hit_and_run_fun(current, move')
                /\ UNCHANGED walk
          /\ (Strategy = "adaptive" /\ target = "uniform") =>
                proposal' = w_current
          /\ (Strategy = "adaptive" /\ target = "hypergeometric") =>
                /\ proposal' \in adaptive_fun(current, move')
                /\ UNCHANGED walk]_vars

\* the candidate of the strategies that add the selected column once
UnitStepStrategy == Strategy \in {"weighted", "direct"}

\* C13: with SIS the substitution is decided by unifs2[i], so the raw steps
\* of one outer iteration share the decision; when it fires the candidate
\* is a fiber-point draw, which becomes current only through the
\* feasibility gate and the transition test; without SIS the stream is not
\* read and the candidate is the one the strategy built.
C13_SISGate ==
  [][RawStep =>
       /\ (j > 0) => unifs2' = unifs2
       /\ SISFires(unifs2') =>
            /\ SIS
            /\ proposal' \in sis_tbl(config, suff_stats)
            /\ prob' = AcceptanceProb(current, proposal')
            /\ current' \in {current, proposal'}
            /\ (current' # current) =>
                 (NonNegative(proposal') /\ Accepts(unifs', prob'))
       /\ ~SIS =>
            /\ unifs2' = unifs2
            /\ UnitStepStrategy => proposal' = AddMove(current, 1, move')
            /\ (Strategy = "hit_and_run" /\ target = "uniform") =>
                 proposal' = AddMove(current, run'[1], move')
            /\ (Strategy = "hit_and_run" /\ target = "hypergeometric") =>
                 proposal' \in hit_and_run_fun(current, move')
            /\ (Strategy = "adaptive" /\ target = "hypergeometric") =>
                 proposal' \in adaptive_fun(current, move')]_vars

\* both raw steps of one outer iteration substituted, the second draw taken
C13_Witness ==
  /\ SIS /\ thin = 2 /\ j = 2 /\ pc = "step"
  /\ SISFires(unifs2)
  /\ proposal \in sis_tbl(config, suff_stats)
  /\ current = proposal
  /\ current # initial
  /\ \A m \in 1..nMoves : current # AddMove(initial, 1, moves[m])

\* one iteration of the inner loop of the adaptive walk
InnerStep == pc = "inner" /\ pc' = "inner" /\ l' = l + 1

\* C14 as claimed: the adaptive walk of metropolis_uniform_cpp starts from
\* a copy of current and has taken exactly ub - lb inner steps when it
\* ends; an inner step proposes w_current + move or w_current - move; every
\* inner state has all entries >= 0 and is current + t * move with |t| at
\* most the number of inner steps taken; the walk leaves current alone.
C14_AdaptiveWalk ==
  [][/\ (pc = "step" /\ pc' = "inner") => (w_current' = current /\ l' = 0)
     /\ InnerStep =>
          /\ \/ w_current' = w_current
             \/ \E c \in {-1, 1} : w_current' = AddMove(w_current, c, move)
          /\ NonNegative(w_current')
          /\ \E t \in (-l')..l' : w_current' = AddMove(current, t, move)
     /\ AdaptiveStepEnd => l = IntMinus(ub, lb)
     /\ (pc = "inner" \/ pc' = "inner") => current' = current]_vars

\* the normalizer is the sum of the weights, each at least 1, and the scan
\* breaks at an index for every selection draw of [0, 1]
WeightsWellFormed(dist, cnt) ==
  /\ cnt = CumWeight(dist, nMoves - 1)
  /\ \A m \in 1..nMoves : dist[m] >= 1
  /\ \A u3 \in Unif3Draws \cup {One} : Scan(dist, cnt, u3) \in 0..(nMoves - 1)

\* C15: in a run with non_uniform the normalizer stays the sum of the move
\* weights, growing from nMoves by 1 with every accepted raw step, every
\* weight stays >= 1, the scan of every raw step breaks at an index of
\* 0..nMoves-1, and the weight incremented on acceptance is that of the
\* index assigned in the same raw step.
C15_WeightedSelection ==
  [][non_uniform =>
       /\ WeightsWellFormed(move_dist, counter)
       /\ WeightsWellFormed(move_dist', counter')
       /\ counter' = counter + (IF RawStep /\ Accepts(unifs', prob') THEN 1 ELSE 0)
       /\ RawStep =>
            /\ which_move' \in 0..(nMoves - 1)
            /\ move' = moves[which_move' + 1]
            /\ \E u3 \in Unif3Draws :
                 which_move' = Scan(move_dist, counter, u3)
            /\ (counter' # counter) =>
                 move_dist' = Reinforce(move_dist, which_move')]_vars

\* after an accepted step the scan selected the last move by its weight
C15_Witness ==
  /\ non_uniform /\ ~SIS
  /\ pc = "step" /\ j = 2
  /\ counter = nMoves + 1
  /\ move_dist = <<2, 1, 1, 1>>
  /\ which_move = 3
  /\ move = moves[4]

\* idx is an index of a stream of nTotalSamples draws
InStream(idx) == 0 <= idx /\ idx < nTotalSamples

\* C16 as claimed: every read of a pre-drawn stream uses an index of
\* 0..iter*thin-1: thin*i+j for whichMove, unifs and unifs3 and i for unifs2
\* in a raw step, and l for the read of unifs in an inner step of the
\* adaptive walk.
C16_StreamBounds ==
  [][/\ (pc = "step" /\ (RawStep \/ pc' \in {"inner", "error"})) =>
          (InStream(thin * i + j) /\ InStream(i))
     /\ InnerStep => InStream(l)]_vars

\* C17: in a hit-and-run raw step of metropolis_uniform_cpp without SIS
\* whose re-validated range is empty (lb > ub), from a current table with
\* all entries >= 0, the fallback candidate current + 1 * move has a
\* negative entry, its acceptance probability is 0 and current is left
\* unchanged; when the step reaches the gate, the candidate is that one.
C17_FallbackNullStep ==
  [][(HitAndRunStep /\ ~SIS /\ NonNegative(current) /\ lb' > ub') =>
       /\ anyIsNegative(AddMove(current, 1, move'))
       /\ UniformProb(AddMove(current, 1, move')) = Zero
       /\ current' = current
       /\ RawStep =>
            /\ run' = <<1>>
            /\ proposal' = AddMove(current, 1, move')
            /\ prob' = Zero]_vars

\* the second raw step found both end points infeasible and fell back
C17_Witness ==
  /\ target = "uniform" /\ hit_and_run /\ ~adaptive /\ ~non_uniform /\ ~SIS
  /\ pc = "step" /\ j = 2
  /\ lb = 1 /\ ub = -1
  /\ run = <<1>>
  /\ proposal = AddMove(current, 1, move)
  /\ prob = Zero
  /\ current # initial

----------------------------------------------------------------------------
(* The acceptance probability of metropolis_hypergeometric_cpp by itself:   *)
(* lines 91-107 applied to an arbitrary pair of tables, and to the same    *)
(* pair with its cells reordered.                                          *)

\* the tables with counts lo..MaxCount
TablesFrom(lo) == [Cells -> lo..MaxCount]

\* the reorderings of the cells
CellPermutations ==
  { pi \in [Cells -> Cells] : \A a, b \in Cells : pi[a] = pi[b] => a = b }

Permute(x, pi) == [k \in Cells |-> x[pi[k]]]

InitHyperProb ==
  /\ target = "hypergeometric"
  /\ hit_and_run = FALSE /\ SIS = FALSE /\ non_uniform = FALSE
  /\ adaptive = FALSE
  /\ iter = 1 /\ thin = 1
  /\ current \in TablesFrom(0)
  /\ proposal \in TablesFrom(-1)
  /\ initial = current
  /\ suff_stats = MatVec(config, initial)
  /\ move = Zeros
  /\ which_move = -1
  /\ move_dist = [m \in 1..nMoves |-> 1]
  /\ counter = nMoves
  /\ lb = 0 /\ ub = 0 /\ run = << >>
  /\ w_current = Zeros
  /\ line_length = 0 /\ l = 0
  /\ unifs = Zero /\ unifs2 = Zero
  /\ prob = Zero
  /\ accept_prob = Zero
  /\ steps = [c \in 1..iter |-> Zeros]
  /\ i = 0 /\ j = 0
  /\ pc = "gate"

\* lines 91-107 on the pair (current, proposal)
ComputeProb ==
  /\ pc = "gate"
  /\ prob' = AcceptanceProb(current, proposal)
  /\ pc' = "computed"
  /\ UNCHANGED <<args, current, proposal, move, which_move, weights, walk,
                 unifs, unifs2, accept_prob, steps, i, j>>

\* lines 91-107 on the pair with the cells of both tables reordered by pi
PermuteCells ==
  /\ pc = "computed"
  /\ \E pi \in CellPermutations :
       /\ current' = Permute(current, pi)
       /\ proposal' = Permute(proposal, pi)
  /\ prob' = AcceptanceProb(current', proposal')
  /\ pc' = "permuted"
  /\ UNCHANGED <<args, move, which_move, weights, walk, unifs, unifs2,
                 accept_prob, steps, i, j>>

NextHyperProb ==
  \/ ComputeProb
  \/ PermuteCells

SpecHyperProb == InitHyperProb /\ [][NextHyperProb]_vars

====
